---- MODULE Spec2Model ----
(***************************************************************************)
(* The small-group (k-anonymity) scanner UniqueBinIdentifierIterator of    *)
(* src/src/binning/unique_bin_identifier_Iterator.py and the entropy       *)
(* assessor DataIntegrityAssessor of src/src/binning/                      *)
(* data_integrity_assessor.py as state machines, and the column-wise type  *)
(* inference of DtypeDetector.process_dataframe of                         *)
(* src/src/data_processing/Detect_Dtypes.py, sequential and on a thread    *)
(* pool, as a third.                                                       *)
(*                                                                         *)
(* One scanner is modelled: its construction, its find_small_groups calls  *)
(* (one action for the validation and set-up of a call, one action per     *)
(* iteration of its loop over the column combinations, the last iteration  *)
(* carrying the trailing DataFrame construction, sort and return) and its  *)
(* accessors.  One assessor is modelled: its construction and one action   *)
(* per method.  The caller of both is modelled by the in-place edits it    *)
(* makes to the tables it was handed.                                      *)
(***************************************************************************)
EXTENDS Integers, Sequences, FiniteSets, TLC

VARIABLES
    original_len,        \* len(original_df), the only part of it the class reads
    original_columns,    \* original_df.columns
    binned_df,           \* [columns, dtypes, rows]: the binned DataFrame
    observed,            \* the build's default of DataFrame.groupby(observed=...)
    quicksort,           \* how the build's quicksort orders rows of equal key: None
                         \* (left open) or Some(n) (see SortedBy)
    inst,                \* "new" | "ready" | "raised": the constructor's outcome
    self_results,        \* self.results: a sequence of result rows (<<>>: empty frame)
    pc,                  \* "idle" | "loop" | "returned" | "raised": the current call
    args,                \* the arguments of the current/last call, as passed
    columns,             \* local `columns` after defaulting (line 43-44)
    max_comb_size,       \* local `max_comb_size` after defaulting/clamping (51-54)
    total_combinations,  \* local (64-66)
    combination_counter, \* local (70, 74)
    indices,             \* position of itertools.combinations within `columns`
    results,             \* local list `results` (62, 87-90)
    progress,            \* the progress_callback invocations of the current call
    error,               \* "" or which raise ended the current call
    ret,                 \* what the last call returned (<<>> while none)
    got,                 \* the last accessor call since the last scan: None or
                         \* Some([op, raised, value])
    completed,           \* history: some find_small_groups call has returned
    held,                \* the table the caller holds: None or Some([value, alias,
                         \* from, snapshot, mutated])
    a_original_df,       \* the assessor's self.original_df
    a_binned_df,         \* the assessor's self.binned_df
    a_inst,              \* "new" | "ready" | "ValueError" | "TypeError"
    integrity_report,    \* self.integrity_report: None or Some(report rows)
    overall_loss,        \* self.overall_loss: None or Some(float)
    computations,        \* history: the number of assess_integrity_loss runs
    a_got,               \* the assessor's last method call: None or
                         \* Some([op, report, loss])
    report_held,         \* the report the caller holds: None or Some([value, ...])
    d_file,              \* [columns, data]: the table in the file at `filepath`
    d_columns,           \* data.columns after clean_column_names
    d_data,              \* local `data` of process_dataframe: column -> cells
    data_types,          \* local `data_types` (250): rows [Column, Type] in
                         \* insertion order
    futures,             \* column -> [state, dtype, series]: its worker's position
                         \* and locals
    d_pc,                \* [at, i]: the main thread's position in process_dataframe
    use_parallel         \* the argument of the call

vars == <<original_len, original_columns, binned_df, observed, quicksort, inst, self_results, pc,
          args, columns, max_comb_size, total_combinations, combination_counter, indices,
          results, progress, error, ret, got, completed, held, a_original_df,
          a_binned_df, a_inst, integrity_report, overall_loss, computations, a_got,
          report_held, d_file, d_columns, d_data, data_types, futures, d_pc,
          use_parallel>>

\* the variables of the scanner and those of the assessor
svars == <<original_len, original_columns, binned_df, observed, quicksort, inst, self_results, pc,
           args, columns, max_comb_size, total_combinations, combination_counter, indices,
           results, progress, error, ret, got, completed, held>>

avars == <<a_original_df, a_binned_df, a_inst, integrity_report, overall_loss,
           computations, a_got, report_held>>

\* the variables of the type detector
dvars == <<d_file, d_columns, d_data, data_types, futures, d_pc, use_parallel>>

(***************************************************************************)
(* Bounds of the model.                                                    *)
(***************************************************************************)
MaxRows == 2        \* rows of a table of Spec
MaxK == 2           \* k ranges over 1..MaxK
MaxCombSize == 2    \* min_comb_size in 0..MaxCombSize, max_comb_size up to +1
NWide == 11         \* columns of the wide table of SpecWide
MaxARows == 3       \* rows of a one-column table of the assessor
MaxComputations == 2 \* assess_integrity_loss runs that are followed

(***************************************************************************)
(* Values.                                                                 *)
(***************************************************************************)
None == <<>>                    \* Python's None for an Optional argument
Some(x) == <<x>>                \* a given Optional argument
NaN == "NaN"                    \* a missing cell
Vals == {"x", "y"}              \* the non-missing cell values
Cell == Vals \cup {NaN}
Categories == Vals              \* the categories of a column of dtype category
Dtypes == {"object", "category"}
ColumnPool == <<"A", "B", "C", "D", "E", "F", "G", "H", "I", "J", "K", "L", "M">>

Range(s) == {s[i] : i \in DOMAIN s}

FirstColumns(n) == SubSeq(ColumnPool, 1, n)

\* every table over the columns cols with at most maxrows rows
Tables(cols, maxrows) ==
    {[columns |-> cols, dtypes |-> d, rows |-> rs] :
        d \in [Range(cols) -> Dtypes],
        rs \in UNION {[1..n -> [Range(cols) -> Cell]] : n \in 0..maxrows}}

(***************************************************************************)
(* _nCr (103-116): math.comb.                                              *)
(***************************************************************************)
\* a variant that counts ordered selections: n!/(n-r)!
RECURSIVE nPr(_, _)
nPr(n, r) ==
    IF r > n THEN 0
    ELSE IF r = 0 THEN 1
    ELSE nPr(n - 1, r - 1) * n

RECURSIVE nCr(_, _)
nCr(n, r) ==
    IF r > n THEN 0
    ELSE IF r = 0 THEN 1
    ELSE (nCr(n - 1, r - 1) * n) \div r

\* a variant that sums over range(lo, hi)
RECURSIVE SumNCrExclusive(_, _, _)
SumNCrExclusive(n, lo, hi) ==
    IF lo >= hi THEN 0 ELSE nCr(n, lo) + SumNCrExclusive(n, lo + 1, hi)

\* sum([self._nCr(len(columns), r) for r in range(lo, hi + 1)])  (64-66)
RECURSIVE SumNCr(_, _, _)
SumNCr(n, lo, hi) ==
    IF lo > hi THEN 0 ELSE nCr(n, lo) + SumNCr(n, lo + 1, hi)

(***************************************************************************)
(* itertools.combinations(columns, r) (73): the generator's index tuple.   *)
(***************************************************************************)
FirstIndices(r) == [i \in 1..r |-> i]

\* the rightmost position that can still advance; 0 when the generator is exhausted
Pivot(ind, n) ==
    LET r == Len(ind)
        movable == {i \in 1..r : ind[i] # i + n - r}
    IN  IF movable = {} THEN 0 ELSE CHOOSE i \in movable : \A j \in movable : j <= i

NextIndices(ind, n) ==
    LET i == Pivot(ind, n)
    IN  [j \in 1..Len(ind) |-> IF j < i THEN ind[j] ELSE ind[i] + 1 + (j - i)]

CombOf(cols, ind) == [i \in 1..Len(ind) |-> cols[ind[i]]]

(***************************************************************************)
(* temp_df.groupby(list(comb)).size() and (group_counts < k).sum() (78-84) *)
(***************************************************************************)
KeyOf(row, comb) == [i \in 1..Len(comb) |-> row[comb[i]]]

\* groupby raises ValueError ("Grouper for 'A' not 1-dimensional") when a key
\* names a column that occurs twice in temp_df
GroupbyRaises(comb) == \E i, j \in 1..Len(comb) : i < j /\ comb[i] = comb[j]

\* dropna=True: a row with a missing value in a key column is in no group
KeptRows(df, comb) ==
    {i \in 1..Len(df.rows) : \A j \in 1..Len(comb) : df.rows[i][comb[j]] # NaN}

ObservedKeys(df, comb) == {KeyOf(df.rows[i], comb) : i \in KeptRows(df, comb)}

\* the group index one key contributes: every category of a categorical column,
\* the values present in the column otherwise
Levels(df, c) ==
    IF df.dtypes[c] = "category" THEN Categories
    ELSE {df.rows[i][c] : i \in 1..Len(df.rows)} \ {NaN}

\* the index of group_counts: with observed=False and a categorical key, the
\* product of the keys' levels (unobserved groups get size 0)
ResultIndex(df, comb, obs) ==
    IF ~obs /\ \E j \in 1..Len(comb) : df.dtypes[comb[j]] = "category"
    THEN {t \in [1..Len(comb) -> Vals] : \A j \in 1..Len(comb) : t[j] \in Levels(df, comb[j])}
    ELSE ObservedKeys(df, comb)

GroupSize(df, comb, key) ==
    Cardinality({i \in KeptRows(df, comb) : KeyOf(df.rows[i], comb) = key})

SmallGroups(df, comb, obs, k) ==
    Cardinality({g \in ResultIndex(df, comb, obs) : GroupSize(df, comb, g) < k})

(***************************************************************************)
(* self.results.sort_values(by='Small_Groups', ascending=True) and         *)
(* reset_index (96-97). kind defaults to 'quicksort', which is not stable: *)
(* the order of rows with equal Small_Groups is not fixed by the code.     *)
(* The outcomes modelled are the stable order and every order that differs *)
(* from it by exchanging two adjacent rows of equal Small_Groups.          *)
(***************************************************************************)
MaxKey(rows) ==
    IF rows = <<>> THEN 0
    ELSE LET ks == {rows[i].Small_Groups : i \in 1..Len(rows)}
         IN  CHOOSE m \in ks : \A x \in ks : x <= m

RECURSIVE StableFrom(_, _, _)
StableFrom(rows, key, top) ==
    IF key > top THEN <<>>
    ELSE SelectSeq(rows, LAMBDA r : r.Small_Groups = key) \o StableFrom(rows, key + 1, top)

StableSort(rows) == StableFrom(rows, 0, MaxKey(rows))

Swap(s, i) == [s EXCEPT ![i] = s[i + 1], ![i + 1] = s[i]]

\* a variant that leaves the rows in enumeration order
Unsorted(rows) == {rows}

SortValues(rows) ==
    LET s == StableSort(rows)
    IN  {s} \cup {Swap(s, i) : i \in {j \in 1..(Len(s) - 1) : s[j].Small_Groups = s[j + 1].Small_Groups}}

\* the first position at or after i where two adjacent rows have equal keys;
\* 0 when there is none
RECURSIVE TieFrom(_, _)
TieFrom(s, i) ==
    IF i >= Len(s) THEN 0
    ELSE IF s[i].Small_Groups = s[i + 1].Small_Groups THEN i
    ELSE TieFrom(s, i + 1)

\* a variant in which the order of equal keys is open in every call
SortedAnyhow(build, rows) == SortValues(rows)

\* sort_values on one build: the sort is a function of its input.  With the
\* build left open every outcome of SortValues is possible; the build Some(0)
\* sorts stably; the build Some(n) exchanges the first two adjacent rows of
\* equal key at or after position n, if there are such rows.
SortedBy(build, rows) ==
    IF build = None THEN SortValues(rows)
    ELSE LET s == StableSort(rows)
             i == IF build[1] = 0 THEN 0 ELSE TieFrom(s, build[1])
         IN  {IF i = 0 THEN s ELSE Swap(s, i)}

(***************************************************************************)
(* __init__ and _validate_dataframes (14-33).                              *)
(***************************************************************************)
\* a variant that accepts any pair of tables
NoValidation(olen, df) == TRUE

ValidateDataframes(olen, df) == olen = Len(df.rows)

NoCall ==
    /\ pc = "idle"
    /\ args = None
    /\ columns = <<>>
    /\ max_comb_size = 0
    /\ total_combinations = 0
    /\ combination_counter = 0
    /\ indices = <<>>
    /\ results = <<>>
    /\ progress = <<>>
    /\ error = ""
    /\ ret = <<>>
    /\ got = None
    /\ completed = FALSE
    /\ held = None

InitWith(tables, olens, obs) ==
    /\ binned_df \in tables
    /\ original_len \in olens
    /\ original_columns = binned_df.columns
    /\ observed \in obs
    /\ quicksort = None
    /\ inst = "new"
    /\ self_results = <<>>
    /\ NoCall

Construct ==
    /\ inst = "new"
    /\ self_results' = <<>>
    /\ inst' = IF ValidateDataframes(original_len, binned_df) THEN "ready" ELSE "raised"
    /\ UNCHANGED <<original_len, original_columns, binned_df, observed, quicksort, pc, args, columns,
                   max_comb_size, total_combinations, combination_counter, indices,
                   results, progress, error, ret, got, completed, held>>
    /\ UNCHANGED <<avars, dvars>>

(***************************************************************************)
(* find_small_groups, validation and set-up (43-70).                       *)
(***************************************************************************)
Min2(a, b) == IF a < b THEN a ELSE b

DefaultColumns(a, df) == IF a.columns = None THEN df.columns ELSE a.columns[1]

MissingCols(a, df) ==
    IF a.columns = None THEN {} ELSE Range(a.columns[1]) \ Range(df.columns)

ClampMax(a, cols) ==
    IF a.max_comb_size = None THEN Len(cols) ELSE Min2(a.max_comb_size[1], Len(cols))

\* a variant without the check of line 56
ValidateNoMin(a, df) ==
    IF MissingCols(a, df) # {} THEN "missing_cols"
    ELSE IF ClampMax(a, DefaultColumns(a, df)) < a.min_comb_size THEN "max_comb_size"
    ELSE ""

\* a variant that rejects a max_comb_size above the number of columns
ValidateStrict(a, df) ==
    IF MissingCols(a, df) # {} THEN "missing_cols"
    ELSE IF a.min_comb_size < 1 THEN "min_comb_size"
    ELSE IF a.max_comb_size # None /\ a.max_comb_size[1] > Len(DefaultColumns(a, df))
         THEN "max_comb_size"
    ELSE IF ClampMax(a, DefaultColumns(a, df)) < a.min_comb_size THEN "max_comb_size"
    ELSE ""

\* which raise of lines 43-60 the arguments meet first ("" when none)
Validate(a, df) ==
    IF MissingCols(a, df) # {} THEN "missing_cols"
    ELSE IF a.min_comb_size < 1 THEN "min_comb_size"
    ELSE IF ClampMax(a, DefaultColumns(a, df)) < a.min_comb_size THEN "max_comb_size"
    ELSE ""

\* a variant that resets the cache before it validates
RejectClearing(a) ==
    /\ pc' = "raised"
    /\ error' = Validate(a, binned_df)
    /\ columns' = <<>>
    /\ max_comb_size' = 0
    /\ total_combinations' = 0
    /\ indices' = <<>>
    /\ self_results' = <<>>

\* a raise of lines 43-60: nothing of the instance is touched
Reject(a) ==
    /\ pc' = "raised"
    /\ error' = Validate(a, binned_df)
    /\ columns' = <<>>
    /\ max_comb_size' = 0
    /\ total_combinations' = 0
    /\ indices' = <<>>
    /\ UNCHANGED self_results

\* lines 62-70, up to the first combinations(columns, min_comb_size)
Begin(a) ==
    /\ pc' = "loop"
    /\ error' = ""
    /\ columns' = DefaultColumns(a, binned_df)
    /\ max_comb_size' = ClampMax(a, columns')
    /\ total_combinations' = SumNCr(Len(columns'), a.min_comb_size, max_comb_size')
    /\ indices' = FirstIndices(a.min_comb_size)
    /\ UNCHANGED self_results

FindSmallGroups(a) ==
    /\ inst = "ready"
    /\ pc # "loop"
    /\ args' = Some(a)
    /\ progress' = <<>>
    /\ ret' = <<>>
    /\ got' = None
    /\ held' = None
    /\ combination_counter' = 0
    /\ results' = <<>>
    /\ IF Validate(a, binned_df) # "" THEN Reject(a) ELSE Begin(a)
    /\ UNCHANGED <<original_len, original_columns, binned_df, observed, quicksort, inst, completed>>
    /\ UNCHANGED <<avars, dvars>>

(***************************************************************************)
(* One iteration of the loop (72-90); the last one runs lines 92-101.      *)
(***************************************************************************)
ProgressEvery == 1000

\* a variant that invokes the callback in every iteration
CallbackAlways(callback, counter) == callback

\* `progress_callback and combination_counter % 1000 == 0` (75)
CallbackDue(callback, counter) == callback /\ counter % ProgressEvery = 0

\* the reference a caller gets to the very object `frame` (101: return self.results)
Same(frame, op) ==
    Some([value |-> frame, alias |-> TRUE, from |-> op, snapshot |-> frame,
          mutated |-> FALSE])

\* a variant that hands out the object itself
NoCopy(frame, op) ==
    Some([value |-> frame, alias |-> TRUE, from |-> op, snapshot |-> frame,
          mutated |-> FALSE])

\* the reference a caller gets to frame.copy() (127)
Copy(frame, op) ==
    Some([value |-> frame, alias |-> FALSE, from |-> op, snapshot |-> frame,
          mutated |-> FALSE])

\* a variant that keeps the rows already cached
MergedFrame(rows) == self_results \o rows

\* pd.DataFrame(results) (93): a new table of the rows of this call
DataFrame(rows) == rows

Iterate ==
    /\ pc = "loop"
    /\ LET comb == CombOf(columns, indices)
           counter == combination_counter + 1
           row == [Combination |-> comb,
                   Small_Groups |-> SmallGroups(binned_df, comb, observed, args[1].k)]
           more == Pivot(indices, Len(columns)) # 0 \/ Len(indices) < max_comb_size
       IN  /\ combination_counter' = counter
           /\ progress' = IF CallbackDue(args[1].progress_callback, counter)
                          THEN Append(progress, <<counter, total_combinations>>)
                          ELSE progress
           /\ IF GroupbyRaises(comb)
              THEN /\ pc' = "raised"
                   /\ error' = "groupby"
                   /\ UNCHANGED <<indices, results, self_results, ret, completed, held>>
              ELSE /\ results' = Append(results, row)
                   /\ error' = ""
                   /\ IF more
                      THEN /\ pc' = "loop"
                           /\ indices' = IF Pivot(indices, Len(columns)) # 0
                                         THEN NextIndices(indices, Len(columns))
                                         ELSE FirstIndices(Len(indices) + 1)
                           /\ UNCHANGED <<self_results, ret, completed, held>>
                      ELSE /\ pc' = "returned"
                           /\ indices' = indices
                           /\ self_results' \in SortedBy(quicksort, DataFrame(results'))
                           /\ ret' = self_results'
                           /\ held' = Same(self_results', "find_small_groups")
                           /\ completed' = TRUE
    /\ UNCHANGED <<original_len, original_columns, binned_df, observed, quicksort, inst, args, columns,
                   max_comb_size, total_combinations, got>>
    /\ UNCHANGED <<avars, dvars>>

(***************************************************************************)
(* get_results (118-127) and save_results (129-139).                       *)
(***************************************************************************)
\* a variant that never finds the cache empty
NeverEmpty(frame) == FALSE

Empty(frame) == Len(frame) = 0

GetResults ==
    /\ inst = "ready"
    /\ pc # "loop"
    /\ got' = Some([op |-> "get_results", raised |-> Empty(self_results),
                    value |-> IF Empty(self_results) THEN <<>> ELSE self_results])
    /\ held' = IF Empty(self_results) \/ (held # None /\ held[1].mutated)
               THEN held
               ELSE Copy(self_results, "get_results")
    /\ UNCHANGED <<original_len, original_columns, binned_df, observed, quicksort, inst, self_results,
                   pc, args, columns, max_comb_size, total_combinations,
                   combination_counter, indices, results, progress, error, ret, completed>>
    /\ UNCHANGED <<avars, dvars>>

SaveResults ==
    /\ inst = "ready"
    /\ pc # "loop"
    /\ got' = Some([op |-> "save_results", raised |-> Empty(self_results),
                    value |-> IF Empty(self_results) THEN <<>> ELSE self_results])
    /\ UNCHANGED <<original_len, original_columns, binned_df, observed, quicksort, inst, self_results,
                   pc, args, columns, max_comb_size, total_combinations,
                   combination_counter, indices, results, progress, error, ret, completed,
                   held>>
    /\ UNCHANGED <<avars, dvars>>

\* the caller drops the first row of the table it holds (in place); the cache
\* changes with it when the table is the cache itself
Mutate ==
    /\ inst = "ready"
    /\ pc # "loop"
    /\ held # None
    /\ held[1].value # <<>>
    /\ held' = Some([held[1] EXCEPT !.value = Tail(@), !.mutated = TRUE])
    /\ self_results' = IF held[1].alias THEN Tail(held[1].value) ELSE self_results
    /\ got' = None
    /\ UNCHANGED <<original_len, original_columns, binned_df, observed, quicksort, inst, pc, args,
                   columns, max_comb_size, total_combinations, combination_counter,
                   indices, results, progress, error, ret, completed>>
    /\ UNCHANGED <<avars, dvars>>

(***************************************************************************)
(* DataIntegrityAssessor (data_integrity_assessor.py).  Entropies are in   *)
(* millionths of a bit (the report rounds them to 6 decimals), percentages *)
(* in hundredths of a percent (rounded to 2 decimals).                     *)
(***************************************************************************)
FloatNaN == <<>>                \* the float nan
Float(n) == <<n>>               \* a float that is a number

ADtypes == Dtypes \cup {"int64"}

\* is_object_dtype(column) or is_categorical_dtype(column) (23, 25)
IsCategorical(dtype) == dtype \in Dtypes

\* a variant that compares the column names as sets
AValidateUnordered(orig, binned) ==
    IF Range(orig.columns) # Range(binned.columns) THEN "ValueError"
    ELSE IF \E c \in Range(orig.columns) :
                ~IsCategorical(orig.dtypes[c]) \/ ~IsCategorical(binned.dtypes[c])
         THEN "TypeError"
         ELSE ""

\* a variant that checks the dtypes of the original table only
AValidateOriginalOnly(orig, binned) ==
    IF orig.columns # binned.columns THEN "ValueError"
    ELSE IF \E c \in Range(orig.columns) : ~IsCategorical(orig.dtypes[c])
         THEN "TypeError"
         ELSE ""

\* _validate_dataframes (18-26): the exception it raises, "" when it returns.
\* Index.equals (19) compares the column names position by position.
AValidate(orig, binned) ==
    IF orig.columns # binned.columns THEN "ValueError"
    ELSE IF \E c \in Range(orig.columns) :
                ~IsCategorical(orig.dtypes[c]) \/ ~IsCategorical(binned.dtypes[c])
         THEN "TypeError"
         ELSE ""

\* series.value_counts() (30): the count of every value of the column, missing
\* cells dropped; a column of dtype category counts each of its categories,
\* also one that no row takes
ValueCounts(df, col) ==
    LET taken == {df.rows[i][col] : i \in DOMAIN df.rows} \ {NaN}
        index == IF df.dtypes[col] = "category" THEN Categories ELSE taken
    IN  [v \in index |-> Cardinality({i \in DOMAIN df.rows : df.rows[i][col] = v})]

\* the entropy, base 2, of the distribution (c/n, 1 - c/n), for n <= 4
BinaryEntropy(c, n) ==
    CASE c = 0 \/ c = n -> 0
      [] 2 * c = n -> 1000000
      [] 3 * c = n \/ 3 * c = 2 * n -> 918296
      [] 4 * c = n \/ 4 * c = 3 * n -> 811278

\* calculate_entropy (28-31): with normalize=True the counts are divided by
\* their sum, which makes every frequency nan when the sum is 0 and there are
\* counts (a category column without a non-missing cell); entropy of no
\* frequencies at all is 0
CalculateEntropy(df, col) ==
    LET counts == ValueCounts(df, col)
        total == Cardinality({i \in DOMAIN df.rows : df.rows[i][col] # NaN})
    IN  IF DOMAIN counts = {} THEN Float(0)
        ELSE IF total = 0 THEN FloatNaN
        ELSE Float(BinaryEntropy(counts[CHOOSE v \in DOMAIN counts : TRUE], total))

\* original_entropy - binned_entropy (45)
Minus(a, b) == IF a = FloatNaN \/ b = FloatNaN THEN FloatNaN ELSE Float(a[1] - b[1])

\* a variant without the guard: a float division by 0.0 gives inf or nan
PercentageLossUnguarded(entropy_loss, original_entropy) ==
    IF entropy_loss = FloatNaN \/ original_entropy = FloatNaN \/ original_entropy = Float(0)
    THEN FloatNaN
    ELSE Float((2 * (entropy_loss[1] * 1000) + original_entropy[1] \div 10)
                   \div (2 * (original_entropy[1] \div 10)))

\* (entropy_loss / original_entropy) * 100 if original_entropy != 0 else 0 (46),
\* rounded to 2 decimals (52); nan != 0 holds
PercentageLoss(entropy_loss, original_entropy) ==
    IF original_entropy = Float(0) THEN Float(0)
    ELSE IF entropy_loss = FloatNaN \/ original_entropy = FloatNaN THEN FloatNaN
    ELSE Float((2 * (entropy_loss[1] * 1000) + original_entropy[1] \div 10)
                   \div (2 * (original_entropy[1] \div 10)))

\* one pass of the loop of assess_integrity_loss (42-52)
ReportRow(orig, binned, col) ==
    LET original_entropy == CalculateEntropy(orig, col)
        binned_entropy == CalculateEntropy(binned, col)
        entropy_loss == Minus(original_entropy, binned_entropy)
    IN  [Variable |-> col,
         Original_Entropy |-> original_entropy,
         Binned_Entropy |-> binned_entropy,
         Entropy_Loss |-> entropy_loss,
         Percentage_Loss |-> PercentageLoss(entropy_loss, original_entropy)]

\* pd.DataFrame(integrity_data) (54): one row per column of the original table
IntegrityReport(orig, binned) ==
    [i \in DOMAIN orig.columns |-> ReportRow(orig, binned, orig.columns[i])]

RECURSIVE SumOf(_)
SumOf(xs) == IF xs = <<>> THEN 0 ELSE Head(xs)[1] + SumOf(Tail(xs))

\* round(report['Percentage Loss (%)'].mean(), 2) (55): mean skips nan and is
\* nan when nothing is left
OverallLoss(report) ==
    LET numbers == SelectSeq([i \in DOMAIN report |-> report[i].Percentage_Loss],
                             LAMBDA x : x # FloatNaN)
        n == Len(numbers)
    IN  IF n = 0 THEN FloatNaN ELSE Float((2 * SumOf(numbers) + n) \div (2 * n))

ANoCall ==
    /\ a_inst = "new"
    /\ integrity_report = None
    /\ overall_loss = None
    /\ computations = 0
    /\ a_got = None
    /\ report_held = None

AInitWith(pairs) ==
    /\ \E p \in pairs : a_original_df = p[1] /\ a_binned_df = p[2]
    /\ ANoCall

\* __init__ (10-16)
AConstruct ==
    /\ a_inst = "new"
    /\ integrity_report' = None
    /\ overall_loss' = None
    /\ a_inst' = IF AValidate(a_original_df, a_binned_df) = "" THEN "ready"
                 ELSE AValidate(a_original_df, a_binned_df)
    /\ UNCHANGED <<a_original_df, a_binned_df, computations, a_got, report_held>>
    /\ UNCHANGED <<svars, dvars>>

\* the body of assess_integrity_loss (34-55)
Assess ==
    /\ integrity_report' = Some(IntegrityReport(a_original_df, a_binned_df))
    /\ overall_loss' = Some(OverallLoss(IntegrityReport(a_original_df, a_binned_df)))
    /\ computations' = computations + 1

\* a variant that computes on every call
AssessAlways(absent) == Assess

\* `if <cache> is None: self.assess_integrity_loss()` (58-59, 63-64, 69-70, 114-115)
AssessIf(absent) ==
    IF absent THEN Assess ELSE UNCHANGED <<integrity_report, overall_loss, computations>>

Called(op, report, loss) == Some([op |-> op, report |-> report, loss |-> loss])

AssessIntegrityLoss ==
    /\ a_inst = "ready"
    /\ computations < MaxComputations
    /\ Assess
    /\ a_got' = Called("assess_integrity_loss", <<>>, None)
    /\ UNCHANGED <<a_original_df, a_binned_df, a_inst, report_held>>
    /\ UNCHANGED <<svars, dvars>>

\* generate_report (57-60)
GenerateReport ==
    /\ a_inst = "ready"
    /\ AssessIf(integrity_report = None)
    /\ a_got' = Called("generate_report", integrity_report'[1], None)
    /\ report_held' = IF report_held # None /\ report_held[1].mutated
                      THEN report_held
                      ELSE Copy(integrity_report'[1], "generate_report")
    /\ UNCHANGED <<a_original_df, a_binned_df, a_inst>>
    /\ UNCHANGED <<svars, dvars>>

\* save_report (62-66): the report written is the cached one
SaveReport ==
    /\ a_inst = "ready"
    /\ AssessIf(integrity_report = None)
    /\ a_got' = Called("save_report", integrity_report'[1], None)
    /\ UNCHANGED <<a_original_df, a_binned_df, a_inst, report_held>>
    /\ UNCHANGED <<svars, dvars>>

\* plot_entropy (68-111): the bars are drawn from the cached report
PlotEntropy ==
    /\ a_inst = "ready"
    /\ AssessIf(integrity_report = None)
    /\ a_got' = Called("plot_entropy", integrity_report'[1], None)
    /\ UNCHANGED <<a_original_df, a_binned_df, a_inst, report_held>>
    /\ UNCHANGED <<svars, dvars>>

\* get_overall_loss (113-116)
GetOverallLoss ==
    /\ a_inst = "ready"
    /\ AssessIf(overall_loss = None)
    /\ a_got' = Called("get_overall_loss", <<>>, overall_loss')
    /\ UNCHANGED <<a_original_df, a_binned_df, a_inst, report_held>>
    /\ UNCHANGED <<svars, dvars>>

\* the caller drops the first row of the report it holds (in place)
MutateReport ==
    /\ a_inst = "ready"
    /\ report_held # None
    /\ report_held[1].value # <<>>
    /\ report_held' = Some([report_held[1] EXCEPT !.value = Tail(@), !.mutated = TRUE])
    /\ integrity_report' = IF report_held[1].alias THEN Some(Tail(report_held[1].value))
                           ELSE integrity_report
    /\ a_got' = None
    /\ UNCHANGED <<a_original_df, a_binned_df, a_inst, overall_loss, computations>>
    /\ UNCHANGED <<svars, dvars>>

(***************************************************************************)
(* DtypeDetector (src/src/data_processing/Detect_Dtypes.py).               *)
(*                                                                         *)
(* A cell is [kind, s, n]: a Python str s (kind "str"), a number of dtype  *)
(* Int64, int8 (category codes), bool or float64 with n twice its value,   *)
(* or a missing value (kind "NA").  A column is a sequence of cells.       *)
(***************************************************************************)
StrCell(s) == [kind |-> "str", s |-> s, n |-> 0]
NumCell(kind, halves) == [kind |-> kind, s |-> "", n |-> halves]
NA == [kind |-> "NA", s |-> "", n |-> 0]

\* what a read of a column gives when it raises instead
Raised == <<[kind |-> "IndexError", s |-> "", n |-> 0]>>

FactorThresholdUnique == 50

\* pd.to_numeric(errors='coerce') of one cell: None (NaN) or Some(twice the value)
ToNumeric(cell) ==
    CASE cell.kind = "NA" -> None
      [] cell.kind = "str" ->
            CASE cell.s \in {"0", "0.0"} -> Some(0)
              [] cell.s = "0.5" -> Some(1)
              [] cell.s \in {"1", "1.0"} -> Some(2)
              [] cell.s = "-1" -> Some(-2)
              [] OTHER -> None
      [] OTHER -> Some(cell.n)

\* pd.to_datetime(errors='coerce', format=fmt) of one cell: no cell of the model
\* matches one of the thirteen formats
ToDatetime(cell) == None

\* the members of the set literal of line 149 (True == 1 and False == 0 in Python)
BoolValues ==
    {StrCell(s) : s \in {"0", "1", "True", "False", "true", "false"}}
        \cup {NumCell(kd, h) : kd \in {"Int64", "int8", "bool", "float64"}, h \in {0, 2}}

\* series.dropna().unique()
Unique(series) == Range(series) \ {NA}

DetermineColumnType(series) ==
    LET total == Len(series)
        num_unique == Cardinality(Unique(series))
        numeric == {i \in DOMAIN series : ToNumeric(series[i]) # None}
        dates == {i \in DOMAIN series : ToDatetime(series[i]) # None}
    IN  IF total = 0 THEN "string"
        ELSE IF 10 * Cardinality(numeric) > 9 * total
             THEN IF \A i \in numeric : ToNumeric(series[i])[1] % 2 = 0 THEN "int"
                  ELSE "float"
        ELSE IF 10 * Cardinality(dates) > 5 * total THEN "date"
        ELSE IF Unique(series) \subseteq BoolValues THEN "bool"
        ELSE IF 2 * num_unique < total /\ num_unique < FactorThresholdUnique
             THEN "factor"
        ELSE "string"

\* the sort order of the str values of the model
StrOrder == <<"-1", "0", "0.0", "0.5", "1", "1.0", "<NA>", "False", "True", "a", "true">>

StrPos(s) == CHOOSE i \in DOMAIN StrOrder : StrOrder[i] = s

Less(a, b) ==
    IF a.kind = "str" /\ b.kind = "str" THEN StrPos(a.s) < StrPos(b.s)
    ELSE ToNumeric(a)[1] < ToNumeric(b)[1]

\* series.astype('category').cat.codes: the rank among the sorted categories
CatCode(cell, series) ==
    IF cell = NA THEN NumCell("int8", -2)
    ELSE NumCell("int8", 2 * Cardinality({u \in Unique(series) : Less(u, cell)}))

\* str(x) of a cell
ReprOf(cell) ==
    CASE cell.kind = "str" -> cell.s
      [] cell.kind = "NA" -> "<NA>"
      [] cell.kind = "bool" -> IF cell.n = 0 THEN "False" ELSE "True"
      [] cell.kind = "float64" ->
            CASE cell.n = 0 -> "0.0" [] cell.n = 1 -> "0.5" [] OTHER -> "1.0"
      [] OTHER -> CASE cell.n = 0 -> "0" [] cell.n = 2 -> "1" [] OTHER -> "-1"

AstypeStr(series) == [i \in DOMAIN series |-> StrCell(ReprOf(series[i]))]

\* the dict of lines 187-190, then astype('bool'): an unmapped cell is NaN, which
\* is true
MapBool(cell) ==
    IF cell \in {StrCell("False"), StrCell("false")}
           \/ (cell.kind \notin {"str", "NA"} /\ cell.n = 0)
    THEN NumCell("bool", 0)
    ELSE NumCell("bool", 2)

\* convert_series: the converted column, or Raised
ConvertSeries(series, dtype) ==
    CASE dtype = "date" -> [i \in DOMAIN series |-> NA]
      [] dtype = "factor" -> [i \in DOMAIN series |-> CatCode(series[i], series)]
      [] dtype = "int" ->
            IF \E i \in DOMAIN series :
                   ToNumeric(series[i]) # None /\ ToNumeric(series[i])[1] % 2 # 0
            THEN Raised
            ELSE [i \in DOMAIN series |->
                     IF ToNumeric(series[i]) = None THEN NA
                     ELSE NumCell("Int64", ToNumeric(series[i])[1])]
      [] dtype = "float" ->
            [i \in DOMAIN series |->
                IF ToNumeric(series[i]) = None THEN NA
                ELSE NumCell("float64", ToNumeric(series[i])[1])]
      [] dtype = "bool" -> [i \in DOMAIN series |-> MapBool(series[i])]
      [] OTHER -> AstypeStr(series)

\* re.sub(r'[\\/]', '', col) on the column names of the model
CleanColumnName(col) ==
    CASE col = "A/" -> "A"
      [] col = "/B" -> "B"
      [] OTHER -> col

CleanColumnNames(cols) == [i \in DOMAIN cols |-> CleanColumnName(cols[i])]

NoFuture == [state |-> "none", dtype |-> "", series |-> <<>>]
Pending == [state |-> "pending", dtype |-> "", series |-> <<>>]

\* what data[col] gives a worker: the column, unless the main thread is inside
\* data[other] = converted_series (258), whose update of the frame's column
\* index is not atomic: the lookup then gives the column, another column, or
\* raises
Read(col) ==
    IF d_pc.at = "setitem" THEN {d_data[c] : c \in DOMAIN d_data} \cup {Raised}
    ELSE {d_data[col]}

\* process_dataframe (211-254, 259): read the file, clean the names, and either
\* submit one process_column per column or enter the sequential loop
ProcessDataframe(up) ==
    /\ d_pc.at = "idle"
    /\ LET cols == CleanColumnNames(d_file.columns)
       IN  /\ d_columns' = cols
           /\ d_data' = [c \in Range(cols) |->
                            d_file.data[CHOOSE i \in DOMAIN cols : cols[i] = c]]
           /\ futures' = [c \in Range(cols) |-> IF up THEN Pending ELSE NoFuture]
           /\ d_pc' = IF up THEN [at |-> "as_completed", i |-> 0]
                      ELSE [at |-> "for", i |-> 1]
    /\ use_parallel' = up
    /\ data_types' = <<>>
    /\ UNCHANGED d_file
    /\ UNCHANGED <<svars, avars>>

\* process_column (194-209) of a single thread
ProcessColumn(series) ==
    LET dtype == DetermineColumnType(series)
        converted_series == ConvertSeries(series, dtype)
    IN  IF converted_series # Raised
        THEN [dtype |-> dtype, series |-> converted_series]
        ELSE [dtype |-> "string", series |-> AstypeStr(series)]

\* data_types[col] = dtype: a dict keeps the position of a key it has
SetType(types, col, dtype) ==
    IF \E i \in DOMAIN types : types[i].Column = col
    THEN [i \in DOMAIN types |->
             IF types[i].Column = col THEN [Column |-> col, Type |-> dtype]
             ELSE types[i]]
    ELSE Append(types, [Column |-> col, Type |-> dtype])

\* one iteration of the sequential loop (260-263), the last one carrying the
\* report and the return (266-270)
SequentialColumn ==
    /\ d_pc.at = "for"
    /\ LET col == d_columns[d_pc.i]
           r == ProcessColumn(d_data[col])
       IN  /\ data_types' = SetType(data_types, col, r.dtype)
           /\ d_data' = [d_data EXCEPT ![col] = r.series]
    /\ d_pc' = IF d_pc.i = Len(d_columns) THEN [at |-> "returned", i |-> 0]
               ELSE [at |-> "for", i |-> d_pc.i + 1]
    /\ UNCHANGED <<d_file, d_columns, futures, use_parallel>>
    /\ UNCHANGED <<svars, avars>>

\* a worker at line 200: data[col] and determine_column_type
WorkerDetermine(col) ==
    /\ futures[col].state = "pending"
    /\ \E series \in Read(col) :
          futures' = [futures EXCEPT ![col] =
              IF series = Raised THEN [@ EXCEPT !.state = "except"]
              ELSE [@ EXCEPT !.state = "typed",
                             !.dtype = DetermineColumnType(series)]]
    /\ UNCHANGED <<d_file, d_columns, d_data, data_types, d_pc, use_parallel>>
    /\ UNCHANGED <<svars, avars>>

\* a worker at lines 201-203: data[col] again, convert_series and the return
WorkerConvert(col) ==
    /\ futures[col].state = "typed"
    /\ \E series \in Read(col) :
          LET converted_series ==
                  IF series = Raised THEN Raised
                  ELSE ConvertSeries(series, futures[col].dtype)
          IN  futures' = [futures EXCEPT ![col] =
                  IF converted_series = Raised THEN [@ EXCEPT !.state = "except"]
                  ELSE [@ EXCEPT !.state = "done", !.series = converted_series]]
    /\ UNCHANGED <<d_file, d_columns, d_data, data_types, d_pc, use_parallel>>
    /\ UNCHANGED <<svars, avars>>

\* a worker in the except branch (204-209): data[col] once more, as str; an
\* exception here is the future's exception
WorkerExcept(col) ==
    /\ futures[col].state = "except"
    /\ \E series \in Read(col) :
          futures' = [futures EXCEPT ![col] =
              IF series = Raised THEN [@ EXCEPT !.state = "failed"]
              ELSE [state |-> "done", dtype |-> "string",
                    series |-> AstypeStr(series)]]
    /\ UNCHANGED <<d_file, d_columns, d_data, data_types, d_pc, use_parallel>>
    /\ UNCHANGED <<svars, avars>>

\* the main thread at 255-257: the next completed future, in the order of
\* completion; future.result() re-raises the worker's exception
FutureResult(col) ==
    /\ d_pc.at = "as_completed"
    /\ futures[col].state \in {"done", "failed"}
    /\ IF futures[col].state = "failed"
       THEN /\ d_pc' = [at |-> "raised", i |-> 0]
            /\ UNCHANGED <<data_types, futures>>
       ELSE /\ data_types' = SetType(data_types, col, futures[col].dtype)
            /\ d_pc' = [at |-> "setitem",
                        i |-> CHOOSE i \in DOMAIN d_columns : d_columns[i] = col]
            /\ UNCHANGED futures
    /\ UNCHANGED <<d_file, d_columns, d_data, use_parallel>>
    /\ UNCHANGED <<svars, avars>>

\* the main thread completing data[col] = converted_series (258); after the last
\* future, the report and the return (266-270)
SetItem ==
    /\ d_pc.at = "setitem"
    /\ LET col == d_columns[d_pc.i]
       IN  /\ d_data' = [d_data EXCEPT ![col] = futures[col].series]
           /\ futures' = [futures EXCEPT ![col].state = "taken"]
           /\ d_pc' = IF \A c \in DOMAIN futures : c = col \/ futures[c].state = "taken"
                      THEN [at |-> "returned", i |-> 0]
                      ELSE [at |-> "as_completed", i |-> 0]
    /\ UNCHANGED <<d_file, d_columns, data_types, use_parallel>>
    /\ UNCHANGED <<svars, avars>>

\* the detector before a call on one file of files
DInitWith(files) ==
    /\ d_file \in files
    /\ d_columns = <<>>
    /\ d_data = <<>>
    /\ data_types = <<>>
    /\ futures = <<>>
    /\ d_pc = [at |-> "idle", i |-> 0]
    /\ use_parallel = FALSE

NoFile == [columns |-> <<>>, data |-> <<>>]

NoDetector == DInitWith({NoFile})

(***************************************************************************)
(* Specifications.                                                         *)
(***************************************************************************)
ArgSet(ks, mins, maxs, colss, cbs) ==
    [k : ks, min_comb_size : mins, max_comb_size : maxs, columns : colss,
     progress_callback : cbs]

\* Spec: the construction and one scan of an instance, for every table of two
\* columns and up to MaxRows rows
ScanColumns ==
    {None, Some(<<"B", "A">>), Some(<<"A">>), Some(<<"A", "A">>), Some(<<"A", "Z">>),
     Some(<<>>)}

ScanArgs ==
    ArgSet(1..MaxK, 0..MaxCombSize, {None} \cup {Some(m) : m \in 1..(MaxCombSize + 1)},
           ScanColumns, {TRUE})

\* the table of the component a specification leaves unused
NoTable == [columns |-> <<>>, dtypes |-> <<>>, rows |-> <<>>]

NoAssessor == AInitWith({<<NoTable, NoTable>>})

Init == InitWith(Tables(FirstColumns(2), MaxRows), 0..MaxRows, BOOLEAN) /\ NoAssessor /\ NoDetector

Next ==
    \/ Construct
    \/ \E a \in ScanArgs : pc = "idle" /\ FindSmallGroups(a)
    \/ Iterate

Spec == Init /\ [][Next]_vars

\* SpecSeq: any sequence of scans and accessor calls on an instance over a table
\* of three columns
SeqRows == <<[A |-> "x", B |-> "x", C |-> "x"], [A |-> "x", B |-> "y", C |-> NaN]>>

SeqTables ==
    {[columns |-> FirstColumns(3), dtypes |-> [c \in Range(FirstColumns(3)) |-> d],
      rows |-> SubSeq(SeqRows, 1, n)] : d \in Dtypes, n \in 0..Len(SeqRows)}

SeqColumns == {None, Some(<<"C", "A">>), Some(<<"A", "A", "B">>), Some(<<"A", "Z">>)}

SeqArgs == ArgSet(1..MaxK, {0, 1, 2}, {None, Some(1)}, SeqColumns, {TRUE})

InitSeq == InitWith(SeqTables, 0..Len(SeqRows), BOOLEAN) /\ NoAssessor /\ NoDetector

NextSeq ==
    \/ Construct
    \/ \E a \in SeqArgs : FindSmallGroups(a)
    \/ Iterate
    \/ GetResults
    \/ SaveResults

SpecSeq == InitSeq /\ [][NextSeq]_vars

\* SpecWide: one scan of a table wide enough for the progress callback to fire
\* twice (2^NWide - 1 combinations), or of two of its columns, with and without
\* a callback
WideColumns == FirstColumns(NWide)

WideTables ==
    {[columns |-> WideColumns, dtypes |-> [c \in Range(WideColumns) |-> "object"],
      rows |-> <<[c \in Range(WideColumns) |-> "x"]>>]}

WideArgs == ArgSet({2}, {1}, {None}, {None, Some(<<"B", "A">>)}, BOOLEAN)

InitWide == InitWith(WideTables, {0, 1}, {FALSE}) /\ NoAssessor /\ NoDetector

NextWide ==
    \/ Construct
    \/ \E a \in WideArgs : pc = "idle" /\ FindSmallGroups(a)
    \/ Iterate

SpecWide == InitWide /\ [][NextWide]_vars

\* SpecCtor: the construction from tables whose columns and row counts may
\* differ, and one scan
OtherColumns == {<<"A">>, <<"A", "C", "B">>, <<"A", "B", "Z">>}

InitCtor ==
    /\ binned_df \in SeqTables
    /\ original_len \in 0..Len(SeqRows)
    /\ original_columns \in {binned_df.columns} \cup OtherColumns
    /\ observed \in BOOLEAN
    /\ quicksort = None
    /\ inst = "new"
    /\ self_results = <<>>
    /\ NoCall
    /\ NoAssessor /\ NoDetector

SpecCtor == InitCtor /\ [][Next]_vars

\* SpecPair: a scan with a callback and then, once it has returned, the same
\* scan without one, on one instance and one build (whose sort is stable, or
\* exchanges the first two rows of equal key); on the wide table the callback
\* is invoked during the first scan
PairArgs == ArgSet(1..MaxK, {1}, {None}, {None, Some(<<"C", "A">>)}, {TRUE})

InitPair ==
    /\ binned_df \in WideTables \cup SeqTables
    /\ original_len = Len(binned_df.rows)
    /\ original_columns = binned_df.columns
    /\ observed = FALSE
    /\ quicksort \in {Some(0), Some(1)}
    /\ inst = "new"
    /\ self_results = <<>>
    /\ NoCall
    /\ NoAssessor /\ NoDetector

NextPair ==
    \/ Construct
    \/ \E a \in PairArgs : pc = "idle" /\ FindSmallGroups(a)
    \/ /\ pc = "returned"
       /\ args[1].progress_callback
       /\ FindSmallGroups([args[1] EXCEPT !.progress_callback = FALSE])
    \/ Iterate

SpecPair == InitPair /\ [][NextPair]_vars

\* SpecLast: a first scan of all columns, which returns, followed by any
\* sequence of scans and get_results calls
FirstArgs == ArgSet(1..MaxK, {1}, {None, Some(1)}, {None}, {TRUE})

InitLast ==
    /\ InitWith(SeqTables, 0..Len(SeqRows), BOOLEAN)
    /\ original_len = Len(binned_df.rows)
    /\ NoAssessor /\ NoDetector

NextLast ==
    \/ Construct
    \/ \E a \in FirstArgs : pc = "idle" /\ FindSmallGroups(a)
    \/ \E a \in SeqArgs : pc \in {"returned", "raised"} /\ FindSmallGroups(a)
    \/ Iterate
    \/ GetResults

SpecLast == InitLast /\ [][NextLast]_vars

\* SpecAssess: the construction of an assessor and any sequence of calls of its
\* methods.  The tables: every pair of tables without rows over a few column
\* sequences and dtypes; every pair of one-column tables of equal length; every
\* pair of two-row tables over two columns.
ATables(colss, dtypes, cells, lens) ==
    UNION {{[columns |-> cols, dtypes |-> d, rows |-> rs] :
                d \in [Range(cols) -> dtypes],
                rs \in UNION {[1..n -> [Range(cols) -> cells]] : n \in lens}} :
           cols \in colss}

SchemaTables ==
    ATables({<<>>, <<"A">>, <<"Z">>, <<"A", "B">>, <<"B", "A">>}, ADtypes, Cell, {0})

ColumnTables == ATables({<<"A">>}, Dtypes, Cell, 0..MaxARows)

TwoColumnTables == ATables({<<"A", "B">>}, {"object"}, Vals, {2})

APairs ==
    (SchemaTables \X SchemaTables)
        \cup {p \in ColumnTables \X ColumnTables : Len(p[1].rows) = Len(p[2].rows)}
        \cup (TwoColumnTables \X TwoColumnTables)

NoScanner == InitWith({NoTable}, {0}, {FALSE})

InitAssess == NoScanner /\ AInitWith(APairs) /\ NoDetector

NextAssess ==
    \/ AConstruct
    \/ AssessIntegrityLoss
    \/ GenerateReport
    \/ SaveReport
    \/ PlotEntropy
    \/ GetOverallLoss

SpecAssess == InitAssess /\ [][NextAssess]_vars

\* SpecCopy: a scanner and an assessor whose caller edits, in place, the tables
\* it was handed
CopyTables ==
    {[columns |-> FirstColumns(3), dtypes |-> [c \in Range(FirstColumns(3)) |-> "object"],
      rows |-> SeqRows]}

CopyArgs == ArgSet({2}, {1}, {None}, {None, Some(<<"A">>)}, {FALSE})

CopyPairs ==
    {p \in TwoColumnTables \X TwoColumnTables :
        p[1].rows[1] = p[1].rows[2] /\ p[2].rows[1] = p[2].rows[2]}

InitCopy ==
    InitWith(CopyTables, {Len(SeqRows)}, {FALSE}) /\ AInitWith(CopyPairs) /\ NoDetector

NextCopy ==
    \/ Construct
    \/ \E a \in CopyArgs : FindSmallGroups(a)
    \/ Iterate
    \/ GetResults
    \/ Mutate
    \/ AConstruct
    \/ AssessIntegrityLoss
    \/ GenerateReport
    \/ MutateReport

SpecCopy == InitCopy /\ [][NextCopy]_vars

(***************************************************************************)
(* Properties.                                                             *)
(***************************************************************************)
Returned == pc = "returned"
TheArgs == args[1]

\* the rows of the binned table whose values on comb's columns are the tuple t
RowsWith(comb, t) ==
    {i \in 1..Len(binned_df.rows) :
        \A j \in 1..Len(comb) : binned_df.rows[i][comb[j]] = t[j]}

\* the value-tuples the binned table's rows take on comb's columns
TuplesOn(comb) ==
    {[j \in 1..Len(comb) |-> binned_df.rows[i][comb[j]]] : i \in 1..Len(binned_df.rows)}

\* C1: in every returned table, each row's Small_Groups is the number of distinct
\* value-tuples of the binned table on the row's combination that fewer than k
\* rows take.
C1_SmallGroupsCountsTuples ==
    Returned =>
        \A i \in 1..Len(ret) :
            ret[i].Small_Groups =
                Cardinality({t \in TuplesOn(ret[i].Combination) :
                                Cardinality(RowsWith(ret[i].Combination, t)) < TheArgs.k})

\* the candidate columns and the effective size range of the current call
Candidates == IF TheArgs.columns = None THEN binned_df.columns ELSE TheArgs.columns[1]
LowSize == TheArgs.min_comb_size
HighSize ==
    IF TheArgs.max_comb_size = None \/ TheArgs.max_comb_size[1] > Len(Candidates)
    THEN Len(Candidates)
    ELSE TheArgs.max_comb_size[1]

\* the sets of positions of candidate columns that a combination can take
PositionSets == {S \in SUBSET (1..Len(Candidates)) : Cardinality(S) \in LowSize..HighSize}

Ascending(S) ==
    CHOOSE f \in [1..Cardinality(S) -> S] : \A i, j \in 1..Cardinality(S) : i < j => f[i] < f[j]

TupleAt(S) == [i \in 1..Cardinality(S) |-> Candidates[Ascending(S)[i]]]

\* C2: a returned table has as many rows as the up-front total, which is the
\* number of ways to choose r candidate columns for r in the effective size
\* range, and holds one row for each such choice.
C2_OneRowPerCombination ==
    Returned =>
        /\ total_combinations = Cardinality(PositionSets)
        /\ Len(ret) = total_combinations
        /\ \A S \in PositionSets :
              Cardinality({i \in 1..Len(ret) : ret[i].Combination = TupleAt(S)})
                  = Cardinality({T \in PositionSets : TupleAt(T) = TupleAt(S)})

C2_Witness == Returned /\ Len(Candidates) = 3 /\ Len(ret) = 7

SortedAscending(t) == \A i \in 1..(Len(t) - 1) : t[i].Small_Groups <= t[i + 1].Small_Groups

\* C3: the table a scan returns and the table cached on the instance are sorted
\* ascending by Small_Groups, after any sequence of scans.
C3_ResultsSorted == SortedAscending(self_results) /\ (Returned => SortedAscending(ret))

\* a second scan returned, and its rows were not enumerated in ascending order
C3_Witness ==
    /\ Returned
    /\ ~SortedAscending(results)
    /\ Len(ret) = Len(results)

\* the raises of lines 49, 57 and 60 (each a ValueError)
ParamErrors == {"missing_cols", "min_comb_size", "max_comb_size"}

UnknownColumn ==
    /\ TheArgs.columns # None
    /\ \E i \in 1..Len(TheArgs.columns[1]) :
          \A j \in 1..Len(binned_df.columns) : binned_df.columns[j] # TheArgs.columns[1][i]

MaxBelowMin == TheArgs.max_comb_size # None /\ TheArgs.max_comb_size[1] < TheArgs.min_comb_size

\* C4: a call with min_comb_size < 1, with max_comb_size < min_comb_size or with
\* a column name that is not in the binned table ends in a ValueError.
C4_BadParametersRaise ==
    (args # None /\ (LowSize < 1 \/ MaxBelowMin \/ UnknownColumn))
        => (pc = "raised" /\ error \in ParamErrors)

C4_Witness ==
    /\ args # None
    /\ LowSize >= 1
    /\ MaxBelowMin
    /\ ~UnknownColumn
    /\ pc = "raised"

\* C5: a call that is rejected for its parameters evaluates no combination,
\* invokes no callback and leaves the cached results as they were.
C5_RejectBeforeWork ==
    [][(pc # "loop" /\ pc' = "raised" /\ error' \in ParamErrors /\ got' = None)
          => /\ self_results' = self_results
             /\ progress' = <<>>
             /\ combination_counter' = 0
             /\ results' = <<>>]_vars

\* a rejected scan after a successful one, and get_results still hands out the table
C5_Witness ==
    /\ pc = "raised"
    /\ error \in ParamErrors
    /\ TheArgs.progress_callback
    /\ self_results # <<>>
    /\ got # None
    /\ got[1].op = "get_results"
    /\ ~got[1].raised

\* C6 as stated: a call with 1 <= min_comb_size <= max_comb_size (as passed) and
\* every named column present never raises.
C6_ValidBoundsNeverRaise ==
    (args # None /\ LowSize >= 1 /\ TheArgs.max_comb_size # None /\ ~MaxBelowMin
        /\ ~UnknownColumn)
        => pc # "raised"

DistinctCandidates ==
    \A i, j \in 1..Len(Candidates) : i # j => Candidates[i] # Candidates[j]

\* C6 amended: such a call never raises and returns a non-empty table when
\* moreover min_comb_size is at most the number of candidate columns and no
\* candidate column is named twice; a max_comb_size above the number of
\* candidate columns is clamped to it.
C6_ClampedMaxReturns ==
    (args # None /\ LowSize >= 1 /\ TheArgs.max_comb_size # None /\ ~MaxBelowMin
        /\ ~UnknownColumn /\ LowSize <= Len(Candidates) /\ DistinctCandidates)
        => /\ pc \in {"loop", "returned"}
           /\ max_comb_size = HighSize
           /\ Returned => ret # <<>>

C6_Witness ==
    /\ Returned
    /\ TheArgs.max_comb_size # None
    /\ TheArgs.max_comb_size[1] > Len(Candidates)
    /\ ret # <<>>

\* C7: get_results and save_results raise exactly when no scan of the instance
\* has returned yet; otherwise they hand out the cached table.
C7_AccessorsFailUntilFirstScan ==
    got # None =>
        /\ got[1].raised <=> ~completed
        /\ ~got[1].raised => (got[1].value = self_results /\ got[1].value # <<>>)

\* get_results succeeds after a scan that failed midway, an earlier one having returned
C7_Witness ==
    /\ got # None
    /\ got[1].op = "get_results"
    /\ ~got[1].raised
    /\ pc = "raised"
    /\ error = "groupby"

\* C8: within one call the callback's processed values never decrease, its total
\* is the up-front number of combinations in every invocation, and processed
\* never exceeds total.
C8_ProgressMonotone ==
    progress # <<>> =>
        LET total == Cardinality(PositionSets)
        IN  \A i \in 1..Len(progress) :
                /\ progress[i][2] = total
                /\ progress[i][1] <= progress[i][2]
                /\ i > 1 => progress[i - 1][1] <= progress[i][1]

C8_Witness == Returned /\ Len(progress) >= 2

\* C9: a scan with k = 1 returns Small_Groups = 0 for every combination.
C9_KOneCountsNothing ==
    (Returned /\ TheArgs.k = 1) => \A i \in 1..Len(ret) : ret[i].Small_Groups = 0

\* C10: when the two tables differ in their number of rows the constructor
\* raises and no scan ever runs; when they agree it succeeds.
C10_RowCountsMustAgree ==
    /\ original_len # Len(binned_df.rows) =>
          (inst # "ready" /\ args = None /\ pc = "idle" /\ combination_counter = 0)
    /\ original_len = Len(binned_df.rows) => inst # "raised"

C10_Witness == inst = "raised" /\ original_len # Len(binned_df.rows)

\* C11: when the column sets of the two tables differ (their row counts being
\* equal) the constructor raises, so no grouping runs on the pair.
C11_ColumnSetsMustAgree ==
    (Range(original_columns) # Range(binned_df.columns)
        /\ original_len = Len(binned_df.rows))
        => (inst # "ready" /\ pc = "idle" /\ combination_counter = 0)

(***************************************************************************)
(* Properties of the assessor.                                             *)
(***************************************************************************)
AConstructed == a_inst # "new"

NothingAssessed == integrity_report = None /\ overall_loss = None /\ computations = 0

AllCategorical(df) == \A c \in Range(df.columns) : df.dtypes[c] \in {"object", "category"}

\* C12: when the column name sequences of the two tables differ, in the names or
\* only in their order, the construction ends with a ValueError and the report
\* and the overall loss stay unset.
C12_ColumnSequencesMustAgree ==
    (AConstructed /\ a_original_df.columns # a_binned_df.columns)
        => (a_inst = "ValueError" /\ NothingAssessed /\ a_got = None)

\* the constructor has rejected two tables with the same names in another order
C12_Witness ==
    /\ a_inst = "ValueError"
    /\ a_original_df.columns = <<"A", "B">>
    /\ a_binned_df.columns = <<"B", "A">>
    /\ AllCategorical(a_original_df) /\ AllCategorical(a_binned_df)

\* C13: with equal column sequences, the construction ends with a TypeError and
\* nothing assessed when a column of either table is neither object nor
\* category typed, and succeeds when every column of both tables is.
C13_ColumnsMustBeCategorical ==
    (AConstructed /\ a_original_df.columns = a_binned_df.columns)
        => IF AllCategorical(a_original_df) /\ AllCategorical(a_binned_df)
           THEN a_inst = "ready"
           ELSE a_inst = "TypeError" /\ NothingAssessed /\ a_got = None

\* the constructor has rejected a pair whose only non-categorical column is in
\* the binned table
C13_Witness ==
    /\ a_inst = "TypeError"
    /\ a_original_df.columns = <<"A", "B">>
    /\ AllCategorical(a_original_df)
    /\ ~AllCategorical(a_binned_df)

ReportRows == IF integrity_report = None THEN {} ELSE Range(integrity_report[1])

\* C14: in every row of a computed report whose original entropy is 0 the
\* percentage loss is 0, whatever the binned entropy; the computation ends
\* without an error (every assessment yields a report and an overall loss).
C14_ZeroEntropyZeroPercentage ==
    /\ \A row \in ReportRows :
           row.Original_Entropy = Float(0) => row.Percentage_Loss = Float(0)
    /\ computations > 0 => (integrity_report # None /\ overall_loss # None)

\* a report row with original entropy 0 and a binned entropy of one bit
C14_Witness ==
    \E row \in ReportRows :
        /\ row.Original_Entropy = Float(0)
        /\ row.Binned_Entropy = Float(1000000)
        /\ row.Percentage_Loss = Float(0)

\* C15: an assessor built with the same categorical table as original and as
\* binned reports entropy loss 0 and percentage loss 0 for every column, and
\* get_overall_loss returns 0.00.
C15_SameTableNoLoss ==
    (a_inst = "ready" /\ a_original_df = a_binned_df /\ AllCategorical(a_original_df))
        => /\ \A row \in ReportRows :
                  row.Entropy_Loss = Float(0) /\ row.Percentage_Loss = Float(0)
           /\ (a_got # None /\ a_got[1].op = "get_overall_loss")
                  => a_got[1].loss = Some(Float(0))

ReadsCache(op) == op \in {"generate_report", "get_overall_loss"}

\* C16: the construction computes nothing; a generate_report or get_overall_loss
\* call computes exactly once when nothing was computed yet, and otherwise
\* leaves the cache as it is and returns the cached value; the cache is
\* computed anew only by an assess_integrity_loss call.
C16_Step ==
    /\ a_inst = "new" => (integrity_report' = None /\ overall_loss' = None
                             /\ computations' = 0)
    /\ (a_inst = "ready" /\ avars' # avars /\ a_got' # None /\ ReadsCache(a_got'[1].op))
           => IF computations = 0
              THEN computations' = 1 /\ integrity_report' # None /\ overall_loss' # None
              ELSE /\ UNCHANGED <<integrity_report, overall_loss, computations>>
                   /\ a_got'[1].op = "generate_report"
                          => a_got'[1].report = integrity_report[1]
                   /\ a_got'[1].op = "get_overall_loss" => a_got'[1].loss = overall_loss
    /\ (computations > 0 /\ computations' # computations)
           => (a_got'[1].op = "assess_integrity_loss" /\ computations' = computations + 1)
    /\ (computations = 0) = (integrity_report = None)
    /\ (computations = 0) = (overall_loss = None)

C16_LazyMemoized == [][C16_Step]_vars

\* the overall loss read from a cache that was computed MaxComputations times,
\* the report having been handed out as well
C16_Witness ==
    /\ computations = MaxComputations
    /\ a_got # None /\ a_got[1].op = "get_overall_loss"
    /\ report_held # None

\* C17: once the caller has edited a table that get_results or generate_report
\* handed out, a later call of the same accessor returns the values that were
\* cached when the table was handed out.
C17_AccessorsHandOutCopies ==
    /\ (held # None /\ held[1].mutated /\ held[1].from = "get_results"
            /\ got # None /\ got[1].op = "get_results")
           => (~got[1].raised /\ got[1].value = held[1].snapshot)
    /\ (report_held # None /\ report_held[1].mutated
            /\ a_got # None /\ a_got[1].op = "generate_report")
           => a_got[1].report = report_held[1].snapshot

\* both accessors called again after the caller edited what they had handed out
C17_Witness ==
    /\ held # None /\ held[1].mutated /\ held[1].from = "get_results"
    /\ held[1].value # held[1].snapshot
    /\ got # None /\ got[1].op = "get_results"
    /\ report_held # None /\ report_held[1].mutated
    /\ report_held[1].value # report_held[1].snapshot
    /\ a_got # None /\ a_got[1].op = "generate_report"

(***************************************************************************)
(* Properties of the order of the result rows.                             *)
(***************************************************************************)
WithCount(rows, c) == SelectSeq(rows, LAMBDA r : r.Small_Groups = c)

\* C18: in a returned table the rows of one Small_Groups count are in the order
\* in which their combinations were enumerated (smaller size first, then the
\* order of itertools.combinations).
C18_TiesInEnumerationOrder ==
    Returned => \A c \in 0..MaxKey(results) : WithCount(ret, c) = WithCount(results, c)

PositionIn(seq, x) == CHOOSE i \in DOMAIN seq : seq[i] = x

InTableOrder(comb, df) ==
    \A i, j \in DOMAIN comb :
        i < j => PositionIn(df.columns, comb[i]) < PositionIn(df.columns, comb[j])

\* C19: every Combination of a returned table lists its columns in the order
\* in which the binned table has them, whatever the order of the columns
\* argument.
C19_CombinationsInTableOrder ==
    Returned => \A i \in DOMAIN ret : InTableOrder(ret[i].Combination, binned_df)

(***************************************************************************)
(* Properties of the progress callback.                                    *)
(***************************************************************************)
\* C20: at every point of a scan the callback has been invoked once for each
\* multiple of 1000 up to the number of combinations processed so far, in
\* increasing order, with that multiple as `processed`; a scan that returns
\* has processed all `total` combinations, so it made total \div 1000
\* invocations, and none when total < 1000.  Without a callback nothing is
\* reported.
C20_CallbackEveryThousand ==
    pc \in {"loop", "returned"} =>
        /\ Len(progress) = (IF TheArgs.progress_callback
                            THEN combination_counter \div 1000 ELSE 0)
        /\ \A j \in DOMAIN progress : progress[j][1] = 1000 * j
        /\ Returned => combination_counter = total_combinations

\* a returned scan of more than 2000 combinations that reported 1000 and 2000
C20_Witness ==
    /\ Returned
    /\ TheArgs.progress_callback
    /\ total_combinations > 2000
    /\ SubSeq(progress, 1, 2) = <<<<1000, total_combinations>>, <<2000, total_combinations>>>>

\* a returned scan of fewer than 1000 combinations with a callback
C20_SmallScan == Returned /\ TheArgs.progress_callback /\ total_combinations < 1000

(***************************************************************************)
(* Properties of repeated scans.                                           *)
(***************************************************************************)
\* C21: in SpecPair a scan without a callback is the repetition, on the same
\* instance with the same k, bounds and columns, of a scan with a callback that
\* returned.  It never raises, and when it returns, its table is, row by row,
\* the table the scan with the callback returned and cached.
C21_Step ==
    (args' # None /\ ~args'[1].progress_callback)
        => /\ pc' # "raised"
           /\ (pc = "loop" /\ pc' = "returned")
                  => (ret' = self_results /\ self_results' = self_results)

C21_CallbackHasNoInfluence == [][C21_Step]_vars

\* the scan without a callback has returned after a scan of more than 2000
\* combinations, on the build whose sort is not stable
C21_Witness ==
    /\ Returned
    /\ ~TheArgs.progress_callback
    /\ total_combinations > 2000
    /\ ret # StableSort(results)

\* C22: the step in which a scan returns caches exactly the rows of that scan
\* (one row for each combination of its candidate columns in its size range,
\* with the count for its k); every other step leaves the cache as it is; and
\* get_results returns the cache.  So get_results returns the rows of the last
\* scan that returned, and nothing of an earlier one.
C22_Step ==
    /\ IF pc = "loop" /\ pc' = "returned"
       THEN /\ self_results' = ret'
            /\ Len(ret') = Cardinality(PositionSets)
            /\ \A S \in PositionSets : \E i \in DOMAIN ret' : ret'[i].Combination = TupleAt(S)
            /\ \A i \in DOMAIN ret' :
                   /\ \E S \in PositionSets : ret'[i].Combination = TupleAt(S)
                   /\ ret'[i].Small_Groups =
                          SmallGroups(binned_df, ret'[i].Combination, observed, TheArgs.k)
       ELSE self_results' = self_results
    /\ (got' # None /\ got'[1].op = "get_results" /\ ~got'[1].raised)
           => got'[1].value = self_results'

C22_CacheHoldsLastScan == [][C22_Step]_vars

\* get_results after a scan of the columns C, A that followed the scan of all
\* three columns
C22_Witness ==
    /\ Returned
    /\ Len(binned_df.columns) = 3
    /\ TheArgs.columns = Some(<<"C", "A">>)
    /\ got # None /\ got[1].op = "get_results"
    /\ Len(got[1].value) = 3

(***************************************************************************)
(* Properties of the counts.                                               *)
(***************************************************************************)
NoMissingValues(df) ==
    \A i \in DOMAIN df.rows : \A c \in Range(df.columns) : df.rows[i][c] # NaN

\* C23: in a table returned for a binned table without missing values, a row
\* whose combination's columns all belong to another row's combination has a
\* Small_Groups not above that other row's.
C23_MonotoneUnderAddingColumns ==
    (Returned /\ NoMissingValues(binned_df)) =>
        \A i, j \in DOMAIN ret :
            Range(ret[i].Combination) \subseteq Range(ret[j].Combination)
                => ret[i].Small_Groups <= ret[j].Small_Groups

\* SpecDetect: one process_dataframe call, sequential or on the thread pool, on
\* every file of two str columns of MaxDRows rows
MaxDRows == 3

RawCells == {StrCell("1"), StrCell("0.5"), StrCell("true"), StrCell("a")}

Files ==
    {[columns |-> <<"A/", "B">>, data |-> <<a, b>>] :
        a \in [1..MaxDRows -> RawCells], b \in [1..MaxDRows -> RawCells]}

InitDetect == NoScanner /\ NoAssessor /\ DInitWith(Files)

NextDetect ==
    \/ \E up \in BOOLEAN : ProcessDataframe(up)
    \/ SequentialColumn
    \/ \E col \in DOMAIN futures : WorkerDetermine(col)
    \/ \E col \in DOMAIN futures : WorkerConvert(col)
    \/ \E col \in DOMAIN futures : WorkerExcept(col)
    \/ \E col \in DOMAIN futures : FutureResult(col)
    \/ SetItem

SpecDetect == InitDetect /\ [][NextDetect]_vars

\* the detected type and the converted column of every column are those of
\* process_column on the column as read from the file
AsProcessedAlone ==
    \A i \in DOMAIN d_columns :
        LET col == d_columns[i]
            alone == ProcessColumn(d_file.data[i])
        IN  /\ \E j \in DOMAIN data_types :
                  data_types[j] = [Column |-> col, Type |-> alone.dtype]
            /\ d_data[col] = alone.series

\* a call with use_parallel=False returns what process_column gives column by
\* column
SequentialAsProcessedAlone ==
    (~use_parallel /\ d_pc.at = "returned") => AsProcessedAlone

\* C24: a call with use_parallel=True does not raise and returns, for every
\* column, the detected type and the converted column that use_parallel=False
\* gives, in whatever order the workers complete.
C24_ParallelAsSequential ==
    use_parallel =>
        /\ d_pc.at # "raised"
        /\ d_pc.at = "returned" => AsProcessedAlone

====
